---- MODULE Spec2Model ----
(***************************************************************************)
(* A model of the ZK-STARK core of ZkVanguard (src/zkp/core/true_stark.py  *)
(* and src/zkp/core/stark_compat.py): finite field, polynomials, Merkle    *)
(* trees, AIR, FRI, the prover TrueZKStark.generate_proof and the verifier *)
(* TrueZKStark.verify_proof, with a proof record travelling from the       *)
(* prover to the verifier through a channel on which it can be altered.    *)
(*                                                                         *)
(* The 521-bit field and the 1024-row trace are scaled down: the prime,    *)
(* the trace length, the blowup factor and the query count are fields of   *)
(* the configuration, drawn in Init from small sets.                       *)
(*                                                                         *)
(* The legacy system zk_system.AuthenticZKStark and the job table and JSON *)
(* transport of the API server (src/zkp/api/server.py) follow, each with   *)
(* its own specification.                                                  *)
(*                                                                         *)
(* Byte strings and text are sequences of one-character strings.  SHA-256  *)
(* is a collision-free constructor: sha256(b) brackets b, so two digests   *)
(* are equal exactly when their inputs are.                                *)
(***************************************************************************)
EXTENDS Integers, Sequences, FiniteSets, TLC

(***************************************************************************)
(* Bounds of the model.                                                    *)
(***************************************************************************)
MaxPrime == 5
MaxTraceLength == 4
MaxBlowup == 2
MaxQueries == 2
MaxSecret == 1
MaxThreshold == 1
DigestBits == 12

MaxLeaves == 6

MaxLeafValue == 1

MaxPoints == 3

MaxY == 1

MaxOrder == 8

MaxCoefficients == 3

MaxDomain == 4

MaxElapsed == 1

LegacyPrimeBits == 13

MaxWitnessValue == 1

MaxEntries == 1

MaxRootDigit == 1

MaxResponse == 2

MaxQueryValue == 1

SafeIntegerBits == 3

MaxDepth == 2

MaxJobs == 2

(***************************************************************************)
(* Program constants.                                                      *)
(***************************************************************************)
CandidateLimit == 1000
DefaultSecret == 42
DefaultThreshold == 21
GrindingBits == 20
SecurityLevel == 521
RootHexLength == 64
LargeNumberDigits == 10
ReplacementRange == 9000
ReplacementBase == 1000

(***************************************************************************)
(* Text and bytes.                                                         *)
(***************************************************************************)
DigitChars == <<"0", "1", "2", "3", "4", "5", "6", "7", "8", "9">>

Alphabet ==
    DigitChars \o <<"_", "h(", ")", "hex">>
    \o <<".", "a", "e", "l", "r", "s", "u", "x", "y", "F", "T", "k(",
         "safe_witness_", "safe_numeric_witness_", "safe_large_number_">>

CharCode(c) == CHOOSE i \in 1..Len(Alphabet) : Alphabet[i] = c

RECURSIVE str(_)
str(n) ==
    IF n < 10 THEN <<DigitChars[n + 1]>>
    ELSE str(n \div 10) \o <<DigitChars[(n % 10) + 1]>>

sha256(b) == <<"h(">> \o b \o <<")">>

(* int(digest.hexdigest(), 16): the digest read as a number of DigestBits   *)
(* bits (256 in the program), most significant character first.            *)
RECURSIVE radix_pow(_, _)
radix_pow(m, k) ==
    IF k = 0 THEN 1 % m
    ELSE LET half == radix_pow(m, k \div 2)
         IN  IF k % 2 = 1 THEN (half * half * 13) % m ELSE (half * half) % m

RECURSIVE hexint_range(_, _, _)
hexint_range(d, lo, hi) ==
    LET m == 2 ^ DigestBits
    IN  IF lo > hi THEN 0
        ELSE IF lo = hi THEN CharCode(d[lo]) % m
        ELSE LET mid == (lo + hi) \div 2
             IN  (hexint_range(d, lo, mid) * radix_pow(m, hi - mid)
                  + hexint_range(d, mid + 1, hi)) % m

hexint(d) == hexint_range(d, 1, Len(d))

(* bytes.hex() and bytes.fromhex(): a hex string is the digest under a     *)
(* "hex" tag; fromhex raises ValueError on any other text.                 *)
hex(d) == <<"hex">> \o d

is_hex(s) == s # <<>> /\ Head(s) = "hex"

fromhex(s) == Tail(s)

Min(a, b) == IF a < b THEN a ELSE b

(***************************************************************************)
(* FiniteField (p is self.prime).                                          *)
(***************************************************************************)
add(p, a, b) == (a + b) % p

mul(p, a, b) == (a * b) % p

sub(p, a, b) == (a - b) % p

RECURSIVE pow(_, _, _)
pow(p, base, exp) ==
    IF exp = 0 THEN 1 % p
    ELSE LET half == pow(p, base, exp \div 2)
             sq == (half * half) % p
         IN  IF exp % 2 = 1 THEN (sq * (base % p)) % p ELSE sq

inv(p, a) == pow(p, a, p - 2)

div(p, a, b) == mul(p, a, inv(p, b))

is_primitive_root(p, g, order) ==
    /\ pow(p, g, order) = 1
    /\ \A i \in 1..(order - 1) : pow(p, g, i) # 1

get_primitive_root(p, order) ==
    LET found == {c \in 2..(Min(CandidateLimit, p) - 1) : is_primitive_root(p, c, order)}
    IN  IF found # {}
        THEN CHOOSE c \in found : \A d \in found : c <= d
        ELSE pow(p, 2, (p - 1) \div order)

(***************************************************************************)
(* Polynomial: a sequence of coefficients, lowest degree first.            *)
(***************************************************************************)
degree(coefficients) ==
    LET nz == {i \in 1..Len(coefficients) : coefficients[i] # 0}
    IN  IF nz = {} THEN 0 ELSE (CHOOSE i \in nz : \A j \in nz : j <= i) - 1

RECURSIVE horner(_, _, _, _, _)
horner(p, coefficients, x, k, result) ==
    IF k = 0 THEN result
    ELSE horner(p, coefficients, x, k - 1, add(p, mul(p, result, x), coefficients[k]))

evaluate(p, coefficients, x) == horner(p, coefficients, x, Len(coefficients), 0)

evaluate_domain(p, coefficients, domain) ==
    [i \in 1..Len(domain) |-> evaluate(p, coefficients, domain[i])]

basis_step_unscaled(p, basis, xi, xj) ==
    [k \in 1..(Len(basis) + 1) |->
        add(p, IF k > 1 THEN basis[k - 1] ELSE 0,
               IF k <= Len(basis) THEN mul(p, basis[k], sub(p, 0, xj)) ELSE 0)]

(* One step of the inner loop of interpolate: basis * (x - xj) / (xi - xj) *)
basis_step(p, basis, xi, xj) ==
    LET denominator_inv == inv(p, sub(p, xi, xj))
        new_basis == [k \in 1..(Len(basis) + 1) |->
                        add(p, IF k > 1 THEN basis[k - 1] ELSE 0,
                               IF k <= Len(basis)
                               THEN mul(p, basis[k], sub(p, 0, xj)) ELSE 0)]
    IN  [k \in 1..Len(new_basis) |-> mul(p, new_basis[k], denominator_inv)]

RECURSIVE lagrange_basis(_, _, _, _, _)
lagrange_basis(p, points, i, j, basis) ==
    IF j > Len(points) THEN basis
    ELSE lagrange_basis(p, points, i, j + 1,
            IF i # j THEN basis_step(p, basis, points[i][1], points[j][1]) ELSE basis)

RECURSIVE interpolate_from(_, _, _, _)
interpolate_from(p, points, i, result) ==
    IF i > Len(points) THEN result
    ELSE LET basis == lagrange_basis(p, points, i, 1, <<points[i][2]>>)
         IN  interpolate_from(p, points, i + 1,
                [k \in 1..Len(result) |->
                    IF k <= Len(basis) THEN add(p, result[k], basis[k]) ELSE result[k]])

interpolate(p, points) ==
    interpolate_from(p, points, 1, [k \in 1..Len(points) |-> 0])

(***************************************************************************)
(* MerkleTree.  A tree is the sequence of its levels: the leaves, their    *)
(* hashes, then each level of parents up to the root.                      *)
(***************************************************************************)
next_level_pad_empty(level) ==
    [k \in 1..((Len(level) + 1) \div 2) |->
        LET left == level[2 * k - 1]
            right == IF 2 * k <= Len(level) THEN level[2 * k] ELSE sha256(<<>>)
        IN  sha256(left \o right)]

next_level(level) ==
    [k \in 1..((Len(level) + 1) \div 2) |->
        LET left == level[2 * k - 1]
            right == IF 2 * k <= Len(level) THEN level[2 * k] ELSE left
        IN  sha256(left \o right)]

RECURSIVE upper_levels(_)
upper_levels(level) ==
    IF Len(level) > 1
    THEN <<next_level(level)>> \o upper_levels(next_level(level))
    ELSE <<>>

build_tree(leaves) ==
    IF leaves = <<>> THEN << <<sha256(<<>>)>> >>
    ELSE LET level == [i \in 1..Len(leaves) |-> sha256(leaves[i])]
         IN  <<leaves, level>> \o upper_levels(level)

MerkleTree(leaves) == [leaves |-> leaves, tree |-> build_tree(leaves)]

root(mt) ==
    IF mt.tree # <<>> /\ mt.tree[Len(mt.tree)] # <<>>
    THEN mt.tree[Len(mt.tree)][1] ELSE sha256(<<>>)

(* index is 0-based, as in the program; level_idx is the 1-based position  *)
(* of the level in the tree (the hashed leaves are tree[2]).               *)
RECURSIVE prove_from(_, _, _)
prove_from(tree, level_idx, current_index) ==
    IF level_idx > Len(tree) - 1 THEN <<>>
    ELSE LET level == tree[level_idx]
             sibling_index == IF current_index % 2 = 0
                              THEN current_index + 1 ELSE current_index - 1
             is_left == (current_index % 2 = 0)
             step == IF sibling_index < Len(level)
                     THEN [sibling |-> level[sibling_index + 1], is_left |-> is_left]
                     ELSE [sibling |-> level[current_index + 1], is_left |-> is_left]
         IN  <<step>> \o prove_from(tree, level_idx + 1, current_index \div 2)

prove_from_leaves(mt, index) == prove_from(mt.tree, 1, index)

prove(mt, index) == prove_from(mt.tree, 2, index)

RECURSIVE verify_from(_, _, _)
verify_from(current, proof, k) ==
    IF k > Len(proof) THEN current
    ELSE verify_from(IF proof[k].is_left
                     THEN sha256(current \o proof[k].sibling)
                     ELSE sha256(proof[k].sibling \o current),
                     proof, k + 1)

verify(leaf, index, proof, rt) == verify_from(sha256(leaf), proof, 1) = rt

(***************************************************************************)
(* AIR                                                                     *)
(***************************************************************************)
boundary_constraints(trace) ==
    (IF Len(trace) > 0 THEN << <<0, trace[1]>> >> ELSE <<>>)
    \o (IF Len(trace) > 1 THEN << <<Len(trace) - 1, trace[Len(trace)]>> >> ELSE <<>>)

transition_constraints(p, current, next_val) ==
    sub(p, next_val, add(p, current, 1))

evaluate_constraints(p, trace) ==
    /\ \A i \in 1..(Len(trace) - 1) :
            transition_constraints(p, trace[i], trace[i + 1]) = 0
    /\ LET boundary == boundary_constraints(trace)
       IN  \A b \in 1..Len(boundary) : trace[boundary[b][1] + 1] = boundary[b][2]

(***************************************************************************)
(* FRI                                                                     *)
(***************************************************************************)
encode_all(evaluations) == [i \in 1..Len(evaluations) |-> str(evaluations[i])]

every_other_first(domain) == <<domain[1]>>

every_other(domain) ==
    [k \in 1..((Len(domain) + 1) \div 2) |-> domain[2 * k - 1]]

fold_swapped(p, coefficients, challenge) ==
    [i \in 1..((Len(coefficients) + 1) \div 2) |->
        add(p, IF 2 * i <= Len(coefficients) THEN coefficients[2 * i] ELSE 0,
               mul(p, challenge, coefficients[2 * i - 1]))]

fold(p, coefficients, challenge) ==
    LET n == Len(coefficients)
        even_len == (n + 1) \div 2
        odd_len == n \div 2
        max_len == IF even_len > odd_len THEN even_len ELSE odd_len
    IN  [i \in 1..max_len |->
            LET even == IF i <= even_len THEN coefficients[2 * i - 1] ELSE 0
                odd == IF i <= odd_len THEN coefficients[2 * i] ELSE 0
            IN  add(p, even, mul(p, challenge, odd))]

(* The digest the folding challenge of a round is read from: the hash of   *)
(* the root of that round's tree.                                          *)
challenge_digest(tree) == sha256(root(tree))

(* challenge = int(sha256(tree.root()).hexdigest(), 16) % prime            *)
fri_challenge(p, tree) == hexint(challenge_digest(tree)) % p

(* The loop of commit_phase: trees and polynomials are the lists built so  *)
(* far, the last polynomial is current_poly.                               *)
RECURSIVE commit_loop(_, _, _, _, _)
commit_loop(p, num_queries, trees, polynomials, current_domain) ==
    IF Len(current_domain) > num_queries
    THEN LET current_poly == polynomials[Len(polynomials)]
             evaluations == evaluate_domain(p, current_poly, current_domain)
             tree == MerkleTree(encode_all(evaluations))
             challenge == fri_challenge(p, tree)
         IN  commit_loop(p, num_queries, Append(trees, tree),
                         Append(polynomials, fold(p, current_poly, challenge)),
                         every_other(current_domain))
    ELSE [trees |-> trees, polynomials |-> polynomials]

commit_phase(p, num_queries, polynomial, domain) ==
    commit_loop(p, num_queries, <<>>, <<polynomial>>, domain)

RECURSIVE query_layers_same_index(_, _, _)
query_layers_same_index(trees, layer_idx, query_idx) ==
    IF layer_idx > Len(trees) THEN <<>>
    ELSE LET tree == trees[layer_idx]
             proof == prove(tree, query_idx)
             here == IF query_idx < Len(tree.leaves)
                     THEN << [value |-> tree.leaves[query_idx + 1],
                              value_is_str |-> TRUE,
                              merkle_proof |->
                                  [k \in 1..Len(proof) |->
                                      [sibling |-> hex(proof[k].sibling),
                                       is_left |-> proof[k].is_left]]] >>
                     ELSE <<>>
         IN  here \o query_layers_same_index(trees, layer_idx + 1, query_idx)

RECURSIVE query_layers(_, _, _)
query_layers(trees, layer_idx, query_idx) ==
    IF layer_idx > Len(trees) THEN <<>>
    ELSE LET tree == trees[layer_idx]
             proof == prove(tree, query_idx)
             here == IF query_idx < Len(tree.leaves)
                     THEN << [value |-> tree.leaves[query_idx + 1],
                              value_is_str |-> TRUE,
                              merkle_proof |->
                                  [k \in 1..Len(proof) |->
                                      [sibling |-> hex(proof[k].sibling),
                                       is_left |-> proof[k].is_left]]] >>
                     ELSE <<>>
         IN  here \o query_layers(trees, layer_idx + 1, query_idx \div 2)

query_phase(trees, queries) ==
    [q \in 1..Len(queries) |->
        [index |-> queries[q], layers |-> query_layers(trees, 1, queries[q])]]

(***************************************************************************)
(* TrueZKStark.  cfg is the prover's configuration: self.prime and the     *)
(* fields of self.config.  Dictionaries are records; dict.get(k, default)  *)
(* is dict_get.                                                            *)
(***************************************************************************)
dict_get(d, key, default) == IF key \in DOMAIN d THEN d[key] ELSE default

RECURSIVE trace_from(_, _, _)
trace_from(p, current, n) ==
    IF n = 0 THEN <<>> ELSE <<current>> \o trace_from(p, add(p, current, 1), n - 1)

generate_execution_trace(cfg, secret, threshold) ==
    trace_from(cfg.prime, secret % cfg.prime, cfg.trace_length)

powers(p, generator, n) == [i \in 1..n |-> pow(p, generator, i - 1)]

(* STEP 9: challenge_seed = sha256(trace_merkle.root()).hexdigest()        *)
challenge_seed(trace_root) == hex(sha256(trace_root))

query_indices(cfg, trace_root, n) ==
    [i \in 1..cfg.num_queries |->
        hexint(sha256(challenge_seed(trace_root) \o <<"_">> \o str(i - 1))) % n]

(* STEP 3 of generate_proof: the trace domain, the powers of the generator *)
(* that get_primitive_root returns for the trace length.                   *)
trace_domain(cfg, trace) ==
    powers(cfg.prime, get_primitive_root(cfg.prime, cfg.trace_length), Len(trace))

(* STEP 3 of generate_proof: the trace polynomial, interpolated from the   *)
(* points (domain[i], trace[i]).                                           *)
trace_polynomial(cfg, trace) ==
    LET domain == trace_domain(cfg, trace)
    IN  interpolate(cfg.prime, [i \in 1..Len(trace) |-> <<domain[i], trace[i]>>])

(* The proof dictionary built in STEP 11, without its generation_time (the *)
(* wall-clock duration of the call, which nothing reads).                  *)
proof_record(cfg, statement, witness) ==
    LET p == cfg.prime
        secret == dict_get(witness, "secret_value", dict_get(witness, "age", DefaultSecret))
        threshold == dict_get(statement, "threshold",
                              dict_get(statement, "min_age", DefaultThreshold))
        trace == generate_execution_trace(cfg, secret, threshold)
        generator == get_primitive_root(p, cfg.trace_length)
        domain == powers(p, generator, Len(trace))
        points == [i \in 1..Len(trace) |-> <<domain[i], trace[i]>>]
        trace_poly == interpolate(p, points)
        extended_domain_size == Len(domain) * cfg.blowup_factor
        extended_generator == get_primitive_root(p, extended_domain_size)
        extended_domain == powers(p, extended_generator, extended_domain_size)
        extended_evaluations == evaluate_domain(p, trace_poly, extended_domain)
        trace_merkle == MerkleTree(encode_all(extended_evaluations))
        composition_poly == trace_poly
        fri == commit_phase(p, cfg.num_queries, composition_poly, extended_domain)
        queries == query_indices(cfg, root(trace_merkle), Len(extended_evaluations))
        fri_queries == query_phase(fri.trees, queries)
    IN  [version |-> "STARK-1.0",
         trace_length |-> Len(trace),
         extended_trace_length |-> Len(extended_evaluations),
         blowup_factor |-> cfg.blowup_factor,
         trace_merkle_root |-> hex(root(trace_merkle)),
         fri_roots |-> [r \in 1..Len(fri.trees) |-> hex(root(fri.trees[r]))],
         fri_final_polynomial |-> fri.polynomials[Len(fri.polynomials)],
         query_responses |-> fri_queries,
         field_prime |-> str(p),
         security_level |-> cfg.grinding_bits,
         protocol |-> "ZK-STARK",
         air_satisfied |-> TRUE,
         statement |-> statement,
         public_output |-> trace[Len(trace)],
         proof_system |-> "AIR + FRI (True STARK)"]

(* generate_proof raises ValueError when the trace fails the AIR; its      *)
(* result is {'proof': proof, **proof}.                                    *)
air_holds(cfg, statement, witness) ==
    LET secret == dict_get(witness, "secret_value", dict_get(witness, "age", DefaultSecret))
        threshold == dict_get(statement, "threshold",
                              dict_get(statement, "min_age", DefaultThreshold))
    IN  evaluate_constraints(cfg.prime, generate_execution_trace(cfg, secret, threshold))

generate_proof(cfg, statement, witness) ==
    LET proof == proof_record(cfg, statement, witness)
    IN  ("proof" :> proof) @@ proof

(* The body of verify_proof's try block can raise: a missing 'fri_roots'   *)
(* or 'query_responses' key, a root or sibling that is not hex, a value    *)
(* that is not a string.  Each layer entry is decoded before the test      *)
(* layer_idx < len(fri_roots), so an entry beyond the roots can raise too. *)
layer_raises(layer_data) ==
    \/ ~layer_data.value_is_str
    \/ \E k \in 1..Len(layer_data.merkle_proof) : ~is_hex(layer_data.merkle_proof[k].sibling)

verify_raises(proof) ==
    \/ "fri_roots" \notin DOMAIN proof
    \/ "query_responses" \notin DOMAIN proof
    \/ \E r \in 1..Len(proof.fri_roots) : ~is_hex(proof.fri_roots[r])
    \/ \E q \in 1..Len(proof.query_responses) :
          \E l \in 1..Len(proof.query_responses[q].layers) :
              layer_raises(proof.query_responses[q].layers[l])

(* STEP 1 for one layer entry; layer_idx is 0-based as in the program.     *)
layer_ok_skips_last(fri_roots, query_idx, layer_idx, layer_data) ==
    LET merkle_proof == [k \in 1..Len(layer_data.merkle_proof) |->
                            [sibling |-> fromhex(layer_data.merkle_proof[k].sibling),
                             is_left |-> layer_data.merkle_proof[k].is_left]]
    IN  IF layer_idx + 1 < Len(fri_roots)
        THEN verify(layer_data.value, query_idx \div (2 ^ layer_idx), merkle_proof,
                    fri_roots[layer_idx + 1])
        ELSE TRUE

layer_ok(fri_roots, query_idx, layer_idx, layer_data) ==
    LET value == layer_data.value
        merkle_proof == [k \in 1..Len(layer_data.merkle_proof) |->
                            [sibling |-> fromhex(layer_data.merkle_proof[k].sibling),
                             is_left |-> layer_data.merkle_proof[k].is_left]]
    IN  IF layer_idx < Len(fri_roots)
        THEN LET current_idx == query_idx \div (2 ^ layer_idx)
             IN  verify(value, current_idx, merkle_proof, fri_roots[layer_idx + 1])
        ELSE TRUE

(* STEP 2: the final polynomial may have at most num_queries coefficients. *)
degree_ok_off_by_one(cfg, final_poly) == ~(Len(final_poly) > cfg.num_queries + 1)

degree_ok(cfg, final_poly) == ~(Len(final_poly) > cfg.num_queries)

verify_proof(cfg, proof, statement) ==
    IF verify_raises(proof) THEN FALSE
    ELSE LET fri_roots == [r \in 1..Len(proof.fri_roots) |-> fromhex(proof.fri_roots[r])]
             query_responses == proof.query_responses
             final_poly == dict_get(proof, "fri_final_polynomial", <<>>)
         IN  /\ \A q \in 1..Len(query_responses) :
                  \A l \in 1..Len(query_responses[q].layers) :
                      layer_ok(fri_roots, query_responses[q].index, l - 1,
                               query_responses[q].layers[l])
             /\ degree_ok(cfg, final_poly)
             /\ dict_get(proof, "air_satisfied", FALSE)

(***************************************************************************)
(* STARKCompatibilityWrapper                                               *)
(***************************************************************************)
(* int(root_hex[:16], 16): the leading quarter of the digest's bits.       *)
hexint_prefix(h) == hexint(fromhex(h)) \div (2 ^ (DigestBits - DigestBits \div 4))

compat_generate_proof(cfg, statement, witness) ==
    LET stark_proof == generate_proof(cfg, statement, witness)
        proof_data == stark_proof.proof
        compat == [response |-> dict_get(proof_data, "public_output", 0),
                   witness_commitment |-> "None",
                   merkle_root |-> proof_data.trace_merkle_root,
                   challenge |-> hexint_prefix(proof_data.trace_merkle_root) % cfg.prime,
                   stark_protocol |-> TRUE,
                   uses_air |-> TRUE,
                   uses_fri |-> TRUE]
    IN  ("proof" :> (compat @@ proof_data)) @@ compat @@ proof_data

compat_verify_proof(cfg, proof, statement) ==
    LET proof_data == IF "proof" \in DOMAIN proof THEN proof.proof ELSE proof
    IN  verify_proof(cfg, proof_data, statement)

(***************************************************************************)
(* The state: one prover/verifier pair and one proof on its way from       *)
(* generate_proof to verify_proof.                                         *)
(***************************************************************************)
VARIABLES
    config,     \* self.prime and self.config of the TrueZKStark instance
    statement,  \* the statement of the generate_proof call
    witness,    \* the witness of the generate_proof call
    proof,      \* the proof record the verifier is handed
    tamper,     \* what was altered between prover and verifier
    presented,  \* the statement handed to verify_proof
    verifier,   \* the class whose verify_proof was called
    verdict,    \* what verify_proof returned
    phase       \* "idle", "proved", "verified"

vars == <<config, statement, witness, proof, tamper, presented, verifier, verdict, phase>>

(***************************************************************************)
(* The building blocks are also exercised on their own, each by its own    *)
(* specification below: one record per building block holds the inputs of  *)
(* the call and what it returned.                                          *)
(***************************************************************************)
VARIABLES
    merkle,     \* a MerkleTree, an opening of it and the result of verify
    lagrange,   \* the points handed to Polynomial.interpolate and its result
    arith,      \* a FiniteField and the last call made on it
    transcript, \* a FRI commitment and the Fiat-Shamir values derived from it
    calls,      \* two generate_proof calls on the same statement and witness
    legacy,     \* a proof of zk_system.AuthenticZKStark and its verification
    jobs,       \* proof_jobs of the API server and what a poller has seen
    transport   \* a value on its way through the JSON conversion functions

lib_vars == <<merkle, lagrange, arith, transcript, calls, legacy, jobs, transport>>

all_vars == <<vars, lib_vars>>

Unused == [stage |-> "unused"]

(* Every building-block variable other than the named one is unused.       *)
UnusedExcept(name) ==
    /\ (name # "merkle" => merkle = Unused)
    /\ (name # "lagrange" => lagrange = Unused)
    /\ (name # "arith" => arith = Unused)
    /\ (name # "transcript" => transcript = Unused)
    /\ (name # "calls" => calls = Unused)
    /\ (name # "legacy" => legacy = Unused)
    /\ (name # "jobs" => jobs = Unused)
    /\ (name # "transport" => transport = Unused)

(* Only the named building-block variable changes.                         *)
OnlyChanges(name) ==
    /\ (name # "merkle" => UNCHANGED merkle)
    /\ (name # "lagrange" => UNCHANGED lagrange)
    /\ (name # "arith" => UNCHANGED arith)
    /\ (name # "transcript" => UNCHANGED transcript)
    /\ (name # "calls" => UNCHANGED calls)
    /\ (name # "legacy" => UNCHANGED legacy)
    /\ (name # "jobs" => UNCHANGED jobs)
    /\ (name # "transport" => UNCHANGED transport)
    /\ UNCHANGED vars

LibraryUnused == UnusedExcept("none")

IsPrime(n) == n > 1 /\ \A d \in 2..(n - 1) : n % d # 0

Primes == {n \in 3..MaxPrime : IsPrime(n)}

Configs ==
    [prime : Primes,
     trace_length : 1..MaxTraceLength,
     blowup_factor : 1..MaxBlowup,
     num_queries : 1..MaxQueries,
     grinding_bits : {GrindingBits}]

Statements == {[claim |-> "counter_ok", threshold |-> t] : t \in 0..MaxThreshold}

EmptyDict == [k \in {} |-> 0]

Witnesses ==
    {EmptyDict}
    \cup {[secret |-> s] : s \in 0..MaxSecret}
    \cup {[secret_value |-> s] : s \in 0..MaxSecret}
    \cup {[age |-> s] : s \in 0..MaxSecret}

NoProof == [version |-> "none"]

Init ==
    /\ config \in Configs
    /\ statement = EmptyDict
    /\ witness = EmptyDict
    /\ proof = NoProof
    /\ tamper = "none"
    /\ presented = EmptyDict
    /\ verifier = "none"
    /\ verdict = "none"
    /\ phase = "idle"
    /\ LibraryUnused

(* TrueZKStark.generate_proof; the caller keeps result['proof'].           *)
GenerateProof(st, w) ==
    /\ phase = "idle"
    /\ statement' = st
    /\ witness' = w
    /\ IF air_holds(config, st, w)
       THEN /\ proof' = generate_proof(config, st, w).proof
            /\ phase' = "proved"
       ELSE /\ proof' = NoProof
            /\ phase' = "raised"
    /\ UNCHANGED <<config, tamper, presented, verifier, verdict, lib_vars>>

(* STARKCompatibilityWrapper.generate_proof                                *)
CompatGenerateProof(st, w) ==
    /\ phase = "idle"
    /\ statement' = st
    /\ witness' = w
    /\ IF air_holds(config, st, w)
       THEN /\ proof' = compat_generate_proof(config, st, w).proof
            /\ phase' = "proved"
       ELSE /\ proof' = NoProof
            /\ phase' = "raised"
    /\ UNCHANGED <<config, tamper, presented, verifier, verdict, lib_vars>>

(* TrueZKStark.verify_proof                                                *)
VerifyProof(st) ==
    /\ phase = "proved"
    /\ presented' = st
    /\ verdict' = IF verify_proof(config, proof, st) THEN "accept" ELSE "reject"
    /\ verifier' = "TrueZKStark"
    /\ phase' = "verified"
    /\ UNCHANGED <<config, statement, witness, proof, tamper, lib_vars>>

(* STARKCompatibilityWrapper.verify_proof, handed either the proof record  *)
(* or the whole result {'proof': ..., **proof}.                            *)
CompatVerifyProof(st, wrapped) ==
    /\ phase = "proved"
    /\ presented' = st
    /\ verdict' = IF compat_verify_proof(config,
                        IF wrapped THEN ("proof" :> proof) @@ proof ELSE proof, st)
                  THEN "accept" ELSE "reject"
    /\ verifier' = "STARKCompatibilityWrapper"
    /\ phase' = "verified"
    /\ UNCHANGED <<config, statement, witness, proof, tamper, lib_vars>>

(***************************************************************************)
(* The channel between prover and verifier: one alteration of the proof    *)
(* record before it is verified.                                           *)
(***************************************************************************)
(* What an altered digest field may hold instead of h: another digest, or  *)
(* a text that is not hex.                                                 *)
OtherDigests(h) == {hex(sha256(h)), str(0)}

(* What an altered field element may hold instead of c.                    *)
OtherScalars(c) == {0, 1} \ {c}

Altered(what, pr) ==
    /\ tamper = "none"
    /\ tamper' = what
    /\ proof' = pr
    /\ UNCHANGED <<config, statement, witness, presented, verifier, verdict, phase, lib_vars>>

TamperTraceRoot ==
    /\ phase = "proved"
    /\ \E d \in OtherDigests(proof.trace_merkle_root) :
          Altered("trace_merkle_root", [proof EXCEPT !.trace_merkle_root = d])

TamperFriRoot ==
    /\ phase = "proved"
    /\ \E r \in 1..Len(proof.fri_roots) :
          \E d \in OtherDigests(proof.fri_roots[r]) :
              Altered("fri_root", [proof EXCEPT !.fri_roots[r] = d])

TamperQueryIndex ==
    /\ phase = "proved"
    /\ \E q \in 1..Len(proof.query_responses) :
          \E i \in {(proof.query_responses[q].index + 1) % proof.extended_trace_length,
                    proof.extended_trace_length} \ {proof.query_responses[q].index} :
              Altered("query_index", [proof EXCEPT !.query_responses[q].index = i])

TamperValue ==
    /\ phase = "proved"
    /\ \E q \in 1..Len(proof.query_responses) :
          \E l \in 1..Len(proof.query_responses[q].layers) :
              \E v \in 0..1 :
                  /\ str(v) # proof.query_responses[q].layers[l].value
                  /\ Altered("value",
                         [proof EXCEPT !.query_responses[q].layers[l].value = str(v)])

(* The value replaced by a number instead of its decimal text.             *)
TamperValueType ==
    /\ phase = "proved"
    /\ \E q \in 1..Len(proof.query_responses) :
          \E l \in 1..Len(proof.query_responses[q].layers) :
              Altered("value_type",
                  [proof EXCEPT !.query_responses[q].layers[l].value_is_str = FALSE])

TamperSibling ==
    /\ phase = "proved"
    /\ \E q \in 1..Len(proof.query_responses) :
          \E l \in 1..Len(proof.query_responses[q].layers) :
              \E k \in 1..Len(proof.query_responses[q].layers[l].merkle_proof) :
                  \E d \in {hex(sha256(
                              proof.query_responses[q].layers[l].merkle_proof[k].sibling))} :
                      Altered("sibling",
                          [proof EXCEPT
                              !.query_responses[q].layers[l].merkle_proof[k].sibling = d])

TamperFinalCoefficient ==
    /\ phase = "proved"
    /\ \E k \in 1..Len(proof.fri_final_polynomial) :
          \E c \in OtherScalars(proof.fri_final_polynomial[k]) :
              Altered("final_coefficient", [proof EXCEPT !.fri_final_polynomial[k] = c])

TamperPublicOutput ==
    /\ phase = "proved"
    /\ \E c \in OtherScalars(proof.public_output) :
          Altered("public_output", [proof EXCEPT !.public_output = c])

RemoveAt(seq, k) == [i \in 1..(Len(seq) - 1) |-> IF i < k THEN seq[i] ELSE seq[i + 1]]

DropLayer ==
    /\ phase = "proved"
    /\ \E q \in 1..Len(proof.query_responses) :
          \E l \in 1..Len(proof.query_responses[q].layers) :
              Altered("drop_layer",
                  [proof EXCEPT !.query_responses[q].layers = RemoveAt(@, l)])

DropQuery ==
    /\ phase = "proved"
    /\ \E q \in 1..Len(proof.query_responses) :
          Altered("drop_query", [proof EXCEPT !.query_responses = RemoveAt(@, q)])

RepeatQuery ==
    /\ phase = "proved"
    /\ \E q \in 1..Len(proof.query_responses) :
          Altered("repeat_query", [proof EXCEPT !.query_responses = Append(@, @[q])])

PadFinalPolynomial ==
    /\ phase = "proved"
    /\ \E n \in (Len(proof.fri_final_polynomial) + 1)..(config.num_queries + 1) :
          Altered("pad_final_polynomial",
              [proof EXCEPT !.fri_final_polynomial =
                  [i \in 1..n |-> IF i <= Len(@) THEN @[i] ELSE 0]])

ClearAirSatisfied ==
    /\ phase = "proved"
    /\ Altered("air_satisfied", [proof EXCEPT !.air_satisfied = FALSE])

Next ==
    \/ \E st \in Statements, w \in Witnesses : GenerateProof(st, w)
    \/ \E st \in Statements, w \in Witnesses : CompatGenerateProof(st, w)
    \/ TamperTraceRoot
    \/ TamperFriRoot
    \/ TamperQueryIndex
    \/ TamperValue
    \/ TamperValueType
    \/ TamperSibling
    \/ TamperFinalCoefficient
    \/ TamperPublicOutput
    \/ DropLayer
    \/ DropQuery
    \/ RepeatQuery
    \/ PadFinalPolynomial
    \/ ClearAirSatisfied
    \/ \E st \in Statements : VerifyProof(st)
    \/ \E st \in Statements, wrapped \in BOOLEAN : CompatVerifyProof(st, wrapped)

Spec == Init /\ [][Next]_all_vars

(***************************************************************************)
(* Properties of the prover and the verifier.                              *)
(***************************************************************************)
Verified == phase = "verified"

Honest == tamper = "none"

(* One opened layer of a query verifies against the layer's root.          *)
LayerOpens(pr, q, r) ==
    /\ r <= Len(pr.query_responses[q].layers)
    /\ ~layer_raises(pr.query_responses[q].layers[r])
    /\ is_hex(pr.fri_roots[r])
    /\ verify(pr.query_responses[q].layers[r].value,
              pr.query_responses[q].index \div (2 ^ (r - 1)),
              [k \in 1..Len(pr.query_responses[q].layers[r].merkle_proof) |->
                  [sibling |-> fromhex(pr.query_responses[q].layers[r].merkle_proof[k].sibling),
                   is_left |-> pr.query_responses[q].layers[r].merkle_proof[k].is_left]],
              fromhex(pr.fri_roots[r]))

(* C1: completeness.  A proof that generate_proof (of TrueZKStark or of    *)
(* the compatibility wrapper) returned for a statement is accepted when it *)
(* is verified, unaltered, against that statement, by either verifier.     *)
C1_Completeness ==
    (Verified /\ Honest /\ presented = statement) => verdict = "accept"

C1_Witness ==
    /\ Verified /\ Honest /\ presented = statement
    /\ verifier = "STARKCompatibilityWrapper"
    /\ "secret_value" \in DOMAIN witness
    /\ Len(proof.fri_roots) > 1
    /\ verdict = "accept"

(* C2: statement binding.  An unaltered proof generated for one statement  *)
(* is rejected when it is verified against a different statement.          *)
C2_StatementBinding ==
    (Verified /\ Honest /\ presented # statement) => verdict = "reject"

(* C3: tamper rejection.  A proof in which exactly one scalar or digest    *)
(* was changed (the trace root, a FRI root, a query index, an opened       *)
(* value, a sibling digest, a final coefficient or the public output) is   *)
(* rejected.                                                               *)
C3_TamperRejected ==
    (Verified /\ tamper \in {"trace_merkle_root", "fri_root", "query_index", "value",
                             "sibling", "final_coefficient", "public_output"})
        => verdict = "reject"

(* C4: no partial verification.  An accepted proof has, in every query     *)
(* response and for every FRI root, an opened value whose Merkle proof     *)
(* verifies against that root.                                             *)
C4_NoPartialVerification ==
    (Verified /\ verdict = "accept") =>
        \A q \in 1..Len(proof.query_responses) :
            \A r \in 1..Len(proof.fri_roots) : LayerOpens(proof, q, r)

(* C5: an accepted proof answers exactly the query indices the verifier    *)
(* derives from the proof's committed root, in squeeze order.              *)
C5_QueryIndicesRecomputed ==
    (Verified /\ verdict = "accept") =>
        /\ is_hex(proof.trace_merkle_root)
        /\ [q \in 1..Len(proof.query_responses) |-> proof.query_responses[q].index]
             = query_indices(config, fromhex(proof.trace_merkle_root),
                             proof.extended_trace_length)

(* C6: a proof whose number of query responses differs from num_queries is *)
(* rejected.                                                               *)
C6_QueryCountChecked ==
    (Verified /\ Len(proof.query_responses) # config.num_queries) => verdict = "reject"

(* C7: a proof in which the opened value of one layer of one query         *)
(* response was changed (to another text, or to a number) is rejected.     *)
C7_OpenedValueBound ==
    (Verified /\ tamper \in {"value", "value_type"}) => verdict = "reject"

C7_Witness ==
    /\ Verified /\ tamper = "value" /\ verdict = "reject"
    /\ \E q \in 1..Len(proof.query_responses) :
          Len(proof.query_responses[q].layers) > 1

(* C8: degree bound.  A proof whose final polynomial has more than         *)
(* num_queries coefficients is rejected.                                   *)
C8_DegreeBound ==
    (Verified /\ Len(proof.fri_final_polynomial) > config.num_queries)
        => verdict = "reject"

C8_Witness ==
    /\ Verified /\ tamper = "pad_final_polynomial"
    /\ Len(proof.fri_final_polynomial) = config.num_queries + 1
    /\ verdict = "reject"

(* The proof the same entry point returns for another witness.             *)
ProofFor(w) ==
    IF "response" \in DOMAIN proof
    THEN compat_generate_proof(config, statement, w).proof
    ELSE generate_proof(config, statement, w).proof

(* C9: zero knowledge.  The proof returned for a statement is the same     *)
(* whatever the witness secret, so its fields tell nothing about it.       *)
C9_WitnessHidden ==
    (phase = "proved" /\ Honest) => \A w \in Witnesses : ProofFor(w) = proof

(* C10: for a witness {secret: s} the public output is the last row of the *)
(* counter trace started at s: (s + trace_length - 1) mod P.               *)
C10_PublicOutput ==
    (phase = "proved" /\ Honest /\ "secret" \in DOMAIN witness) =>
        proof.public_output
            = (witness.secret + config.trace_length - 1) % config.prime

(* The trace that generate_proof built for the witness of the last call.   *)
ProverTrace ==
    generate_execution_trace(config,
        dict_get(witness, "secret_value", dict_get(witness, "age", DefaultSecret)),
        dict_get(statement, "threshold", dict_get(statement, "min_age", DefaultThreshold)))

PowerOfTwo(n) == \E k \in 0..n : n = 2 ^ k

(* C11: in generate_proof, for a prime P and a power-of-two trace length   *)
(* T, the trace domain is T pairwise distinct powers of a primitive T-th   *)
(* root of unity, and the interpolated trace polynomial f takes the value  *)
(* trace[i] at the i-th domain point, for every row i.                     *)
C11_TraceInterpolated ==
    (phase = "proved" /\ Honest /\ PowerOfTwo(config.trace_length)) =>
        LET trace == ProverTrace
            domain == trace_domain(config, trace)
            f == trace_polynomial(config, trace)
        IN  /\ is_primitive_root(config.prime,
                    get_primitive_root(config.prime, config.trace_length),
                    config.trace_length)
            /\ \A i, j \in 1..Len(domain) : i # j => domain[i] # domain[j]
            /\ \A i \in 1..Len(trace) : evaluate(config.prime, f, domain[i]) = trace[i]

(***************************************************************************)
(* The protocol variables while a building block is exercised on its own.  *)
(***************************************************************************)
ProtocolUnused ==
    /\ config = EmptyDict
    /\ statement = EmptyDict
    /\ witness = EmptyDict
    /\ proof = NoProof
    /\ tamper = "none"
    /\ presented = EmptyDict
    /\ verifier = "none"
    /\ verdict = "none"
    /\ phase = "unused"

(***************************************************************************)
(* MerkleTree on its own: a tree is built over a list of leaves, one leaf  *)
(* is opened with prove, and verify is called on the opening with a        *)
(* position of the caller's choice.                                        *)
(***************************************************************************)
Leaves == {str(v) : v \in 0..MaxLeafValue}

LeafLists == UNION {[1..n -> Leaves] : n \in 0..MaxLeaves}

MerkleInit ==
    /\ merkle \in {[stage |-> "leaves", leaves |-> l, tree |-> <<>>, index |-> 0,
                    proof |-> <<>>, claimed |-> 0, ok |-> FALSE] : l \in LeafLists}
    /\ UnusedExcept("merkle")
    /\ ProtocolUnused

(* MerkleTree(leaves)                                                      *)
MerkleBuild ==
    /\ merkle.stage = "leaves"
    /\ merkle' = [merkle EXCEPT !.stage = "built",
                                !.tree = MerkleTree(merkle.leaves).tree]
    /\ OnlyChanges("merkle")

(* tree.prove(index)                                                       *)
MerkleProve(index) ==
    /\ merkle.stage = "built"
    /\ merkle' = [merkle EXCEPT !.stage = "opened",
                                !.index = index,
                                !.proof = prove(merkle, index)]
    /\ OnlyChanges("merkle")

(* MerkleTree.verify(leaves[index], claimed, proof, tree.root())           *)
MerkleVerify(claimed) ==
    /\ merkle.stage = "opened"
    /\ merkle' = [merkle EXCEPT !.stage = "checked",
                                !.claimed = claimed,
                                !.ok = verify(merkle.leaves[merkle.index + 1], claimed,
                                              merkle.proof, root(merkle))]
    /\ OnlyChanges("merkle")

MerkleNext ==
    \/ MerkleBuild
    \/ \E index \in 0..(Len(merkle.leaves) - 1) : MerkleProve(index)
    \/ \E claimed \in 0..(Len(merkle.leaves) - 1) : MerkleVerify(claimed)

MerkleSpec == MerkleInit /\ [][MerkleNext]_all_vars

(* C12: Merkle round trip.  For a tree over any non-empty list of leaves   *)
(* (of a length that need not be a power of two) and any position i,       *)
(* verify(leaves[i], i, prove(i), root()) is True.                         *)
C12_MerkleRoundTrip ==
    (merkle.stage = "checked" /\ merkle.claimed = merkle.index) => merkle.ok

C12_Witness ==
    /\ merkle.stage = "checked"
    /\ Len(merkle.leaves) = 3
    /\ merkle.index = 2
    /\ merkle.claimed = 2
    /\ merkle.ok

PairwiseDistinct(seq) == \A i, j \in 1..Len(seq) : i # j => seq[i] # seq[j]

(* C13: verify is bound to the stated position.  For a tree with pairwise  *)
(* distinct leaves, verify(leaves[i], j, prove(i), root()) is False for    *)
(* every position j other than i.                                          *)
C13_PositionBound ==
    (/\ merkle.stage = "checked"
     /\ PairwiseDistinct(merkle.leaves)
     /\ merkle.claimed # merkle.index) => ~merkle.ok

LeafCount(leaves, leaf) == Cardinality({i \in 1..Len(leaves) : leaves[i] = leaf})

(* C14: the root determines the multiset of leaves.  Every list of leaves  *)
(* whose tree has the same root as the built tree has the same leaves with *)
(* the same multiplicities, hence the same length.                         *)
C14_RootDeterminesLeaves ==
    merkle.stage = "built" =>
        \A other \in LeafLists :
            root(MerkleTree(other)) = root(merkle) =>
                \A leaf \in Leaves : LeafCount(other, leaf) = LeafCount(merkle.leaves, leaf)

RECURSIVE NextPowerOfTwo(_, _)
NextPowerOfTwo(n, k) == IF k >= n THEN k ELSE NextPowerOfTwo(n, 2 * k)

(* The leaves padded to the next power of two by repeating the last leaf.  *)
PaddedLeaves(leaves) ==
    [i \in 1..NextPowerOfTwo(Len(leaves), 1) |->
        IF i <= Len(leaves) THEN leaves[i] ELSE leaves[Len(leaves)]]

(* The root of the complete binary tree over a level of 2^k nodes.         *)
RECURSIVE CompleteRoot(_)
CompleteRoot(level) ==
    IF Len(level) = 1 THEN level[1]
    ELSE CompleteRoot([k \in 1..(Len(level) \div 2) |->
                          sha256(level[2 * k - 1] \o level[2 * k])])

(* C15: the root of a tree over a non-empty list of leaves is the root of  *)
(* the complete binary tree over the list padded to the next power of two  *)
(* by repeating its last leaf.                                             *)
C15_PaddedToPowerOfTwo ==
    (merkle.stage = "built" /\ merkle.leaves # <<>>) =>
        root(merkle) =
            CompleteRoot([i \in 1..Len(PaddedLeaves(merkle.leaves)) |->
                             sha256(PaddedLeaves(merkle.leaves)[i])])

(***************************************************************************)
(* Polynomial on its own: a list of points is interpolated and the         *)
(* resulting polynomial is evaluated at the x of one of the points.        *)
(* Neither interpolate nor the field operations it calls contain a raise:  *)
(* the call always returns, which the record notes as raised = FALSE.      *)
(***************************************************************************)
PointLists(p) ==
    UNION {[1..n -> (0..(p - 1)) \X (0..Min(MaxY, p - 1))] : n \in 1..MaxPoints}

LagrangeInit ==
    /\ \E p \in Primes :
          lagrange \in {[stage |-> "points", prime |-> p, points |-> pts,
                         coefficients |-> <<>>, raised |-> FALSE, at |-> 0,
                         value |-> 0] : pts \in PointLists(p)}
    /\ UnusedExcept("lagrange")
    /\ ProtocolUnused

(* Polynomial.interpolate(points, field)                                   *)
Interpolate ==
    /\ lagrange.stage = "points"
    /\ lagrange' = [lagrange EXCEPT
                        !.stage = "interpolated",
                        !.coefficients = interpolate(lagrange.prime, lagrange.points),
                        !.raised = FALSE]
    /\ OnlyChanges("lagrange")

(* polynomial.evaluate(x_i)                                                *)
Evaluate(i) ==
    /\ lagrange.stage = "interpolated"
    /\ lagrange' = [lagrange EXCEPT
                        !.stage = "evaluated",
                        !.at = i,
                        !.value = evaluate(lagrange.prime, lagrange.coefficients,
                                           lagrange.points[i][1])]
    /\ OnlyChanges("lagrange")

LagrangeNext ==
    \/ Interpolate
    \/ \E i \in 1..Len(lagrange.points) : Evaluate(i)

LagrangeSpec == LagrangeInit /\ [][LagrangeNext]_all_vars

DistinctX(p, points) ==
    \A i, j \in 1..Len(points) : i # j => points[i][1] % p # points[j][1] % p

(* C16: polynomial round trip.  For points with pairwise distinct x_i and  *)
(* any y_i in [0, P), interpolate(points).evaluate(x_i) = y_i for every i. *)
C16_PolynomialRoundTrip ==
    (lagrange.stage = "evaluated" /\ DistinctX(lagrange.prime, lagrange.points)) =>
        lagrange.value = lagrange.points[lagrange.at][2]

C16_Witness ==
    /\ lagrange.stage = "evaluated"
    /\ Len(lagrange.points) = 3
    /\ DistinctX(lagrange.prime, lagrange.points)
    /\ lagrange.points[lagrange.at][2] = 1
    /\ lagrange.value = 1

(* C17: interpolate fails (InterpolationDomain) whenever two of its points *)
(* share an x modulo P; it never returns a polynomial for such points.     *)
C17_DuplicateXFails ==
    (/\ lagrange.stage \in {"interpolated", "evaluated"}
     /\ ~DistinctX(lagrange.prime, lagrange.points)) => lagrange.raised

(***************************************************************************)
(* FiniteField on its own: calls of inv, div, is_primitive_root and        *)
(* get_primitive_root on a field of prime order.  None of the four has a   *)
(* raise and pow(a, P - 2, P) is defined for every a: each call returns,   *)
(* which the record notes as raised = FALSE.                               *)
(***************************************************************************)
FieldInit ==
    /\ arith \in {[stage |-> "field", prime |-> p, op |-> "none", a |-> 0, b |-> 0,
                   result |-> 0, raised |-> FALSE] : p \in Primes}
    /\ UnusedExcept("arith")
    /\ ProtocolUnused

Called(op, a, b, result) ==
    [arith EXCEPT !.stage = "called", !.op = op, !.a = a, !.b = b,
                  !.result = result, !.raised = FALSE]

(* field.inv(a)                                                            *)
Inv(a) ==
    /\ arith' = Called("inv", a, 0, inv(arith.prime, a))
    /\ OnlyChanges("arith")

(* field.div(a, b)                                                         *)
Div(a, b) ==
    /\ arith' = Called("div", a, b, div(arith.prime, a, b))
    /\ OnlyChanges("arith")

(* field.is_primitive_root(g, order)                                       *)
IsPrimitiveRoot(g, order) ==
    /\ arith' = Called("is_primitive_root", g, order,
                       IF is_primitive_root(arith.prime, g, order) THEN 1 ELSE 0)
    /\ OnlyChanges("arith")

(* field.get_primitive_root(order)                                         *)
GetPrimitiveRoot(order) ==
    /\ arith' = Called("get_primitive_root", order, 0,
                       get_primitive_root(arith.prime, order))
    /\ OnlyChanges("arith")

FieldNext ==
    \/ \E a \in 0..MaxPrime : Inv(a)
    \/ \E a, b \in 0..MaxPrime : Div(a, b)
    \/ \E g \in 0..MaxPrime, order \in 1..MaxOrder : IsPrimitiveRoot(g, order)
    \/ \E order \in 1..MaxOrder : GetPrimitiveRoot(order)

FieldSpec == FieldInit /\ [][FieldNext]_all_vars

(* C18: inv(0) and div(a, 0) fail (FieldArithmetic) instead of returning a *)
(* field element.                                                          *)
C18_DivisionByZeroFails ==
    /\ (arith.op = "inv" /\ arith.a % arith.prime = 0) => arith.raised
    /\ (arith.op = "div" /\ arith.b % arith.prime = 0) => arith.raised

(* g is a primitive n-th root of unity of the field of order p.            *)
PrimitiveRootOfUnity(p, g, n) ==
    /\ (g ^ n) % p = 1
    /\ \A k \in 1..(n - 1) : (g ^ k) % p # 1

(* C19: every value that get_primitive_root(N) returns is a primitive N-th *)
(* root of unity, and when the field has none (N does not divide P - 1)    *)
(* the call fails (FieldArithmetic) instead of returning a value.          *)
C19_PrimitiveRoot ==
    arith.op = "get_primitive_root" =>
        /\ ~arith.raised => PrimitiveRootOfUnity(arith.prime, arith.result, arith.a)
        /\ (\A g \in 0..(arith.prime - 1) : ~PrimitiveRootOfUnity(arith.prime, g, arith.a))
               => arith.raised

(***************************************************************************)
(* The Fiat-Shamir values on their own: STEPs 4 to 9 of generate_proof run *)
(* on a composition polynomial drawn from a small set.  The polynomial is  *)
(* evaluated on the extended domain and committed to (the trace root), the *)
(* FRI commit phase derives one folding challenge per round, and the seed  *)
(* of the query indices is derived.  The derived values are kept as the    *)
(* digests they are read from.                                             *)
(***************************************************************************)
Polynomials(p) == UNION {[1..n -> 0..(p - 1)] : n \in 1..MaxCoefficients}

(* STEP 4: the extended domain of a given size.                            *)
extended_domain(p, size) == powers(p, get_primitive_root(p, size), size)

(* STEPs 5 and 6: the Merkle tree over the evaluations.                    *)
trace_merkle(p, polynomial, domain) ==
    MerkleTree(encode_all(evaluate_domain(p, polynomial, domain)))

(* Everything the prover derives for one polynomial.                       *)
FiatShamir(p, num_queries, polynomial, size) ==
    LET domain == extended_domain(p, size)
        fri == commit_phase(p, num_queries, polynomial, domain)
    IN  [trace_root |-> root(trace_merkle(p, polynomial, domain)),
         fri_roots |-> [r \in 1..Len(fri.trees) |-> root(fri.trees[r])],
         challenges |-> [r \in 1..Len(fri.trees) |-> challenge_digest(fri.trees[r])],
         seed |-> challenge_seed(root(trace_merkle(p, polynomial, domain)))]

TranscriptInit ==
    /\ \E p \in Primes :
          transcript \in
              {[stage |-> "polynomial", prime |-> p, num_queries |-> nq, size |-> size,
                polynomial |-> f, trace_root |-> <<>>, fri_roots |-> <<>>,
                polynomials |-> <<>>, challenges |-> <<>>, seed |-> <<>>,
                queries |-> <<>>, responses |-> <<>>] :
                   nq \in 1..MaxQueries, size \in 1..MaxDomain, f \in Polynomials(p)}
    /\ UnusedExcept("transcript")
    /\ ProtocolUnused

(* STEPs 4 to 6: commit to the evaluations on the extended domain.         *)
CommitTrace ==
    /\ transcript.stage = "polynomial"
    /\ transcript' =
          [transcript EXCEPT
              !.stage = "committed",
              !.trace_root = root(trace_merkle(transcript.prime, transcript.polynomial,
                                  extended_domain(transcript.prime, transcript.size)))]
    /\ OnlyChanges("transcript")

(* STEP 8: FRI.commit_phase, which derives a folding challenge per round.  *)
CommitPhase ==
    /\ transcript.stage = "committed"
    /\ LET fri == commit_phase(transcript.prime, transcript.num_queries,
                               transcript.polynomial,
                               extended_domain(transcript.prime, transcript.size))
       IN  transcript' =
              [transcript EXCEPT
                  !.stage = "folded",
                  !.fri_roots = [r \in 1..Len(fri.trees) |-> root(fri.trees[r])],
                  !.polynomials = fri.polynomials,
                  !.challenges = [r \in 1..Len(fri.trees) |->
                                     challenge_digest(fri.trees[r])]]
    /\ OnlyChanges("transcript")

(* STEP 9: the seed of the query indices.                                  *)
DeriveQuerySeed ==
    /\ transcript.stage = "folded"
    /\ transcript' = [transcript EXCEPT
                         !.stage = "queried",
                         !.seed = challenge_seed(transcript.trace_root)]
    /\ OnlyChanges("transcript")

(* STEP 10: FRI.query_phase(fri_trees, queries), for any list of positions *)
(* of the extended domain.                                                 *)
QueryPhase(queries) ==
    /\ transcript.stage = "queried"
    /\ Len(queries) = transcript.num_queries
    /\ \A i \in 1..Len(queries) : queries[i] < transcript.size
    /\ LET fri == commit_phase(transcript.prime, transcript.num_queries,
                               transcript.polynomial,
                               extended_domain(transcript.prime, transcript.size))
       IN  transcript' = [transcript EXCEPT
                             !.stage = "opened",
                             !.queries = queries,
                             !.responses = query_phase(fri.trees, queries)]
    /\ OnlyChanges("transcript")

QueryLists == UNION {[1..n -> 0..(MaxDomain - 1)] : n \in 1..MaxQueries}

TranscriptNext ==
    \/ CommitTrace
    \/ CommitPhase
    \/ DeriveQuerySeed
    \/ \E queries \in QueryLists : QueryPhase(queries)

TranscriptSpec == TranscriptInit /\ [][TranscriptNext]_all_vars

(* The two transcripts differ in the trace root or in the root of one of   *)
(* the FRI layers 1..r.                                                    *)
AbsorbedDiffer(t, u, r) ==
    \/ t.trace_root # u.trace_root
    \/ \E k \in 1..r : t.fri_roots[k] # u.fri_roots[k]

(* C20: every Fiat-Shamir output depends on the whole transcript absorbed  *)
(* before it.  Against the run of any other polynomial under the same      *)
(* parameters: if the trace root or the root of a FRI layer up to r is     *)
(* different, the folding challenge of round r is different, and if the    *)
(* trace root or any FRI root is different, the query seed is different.   *)
C20_TranscriptDependence ==
    transcript.stage = "queried" =>
        \A f \in Polynomials(transcript.prime) :
            LET other == FiatShamir(transcript.prime, transcript.num_queries, f,
                                    transcript.size)
            IN  /\ \A r \in 1..Len(transcript.fri_roots) :
                       AbsorbedDiffer(transcript, other, r)
                           => other.challenges[r] # transcript.challenges[r]
                /\ AbsorbedDiffer(transcript, other, Len(transcript.fri_roots))
                       => other.seed # transcript.seed

(***************************************************************************)
(* generate_proof called twice on the same instance with the same          *)
(* statement and witness.  The only input that differs between two calls   *)
(* is the clock: generation_time is time.time() - start_time, here a       *)
(* number of ticks.                                                        *)
(***************************************************************************)
timed_proof_salted(cfg, st, w, elapsed) ==
    ("generation_time" :> elapsed)
        @@ [proof_record(cfg, st, w) EXCEPT !.public_output = (@ + elapsed) % cfg.prime]

(* The proof dictionary of STEP 11 with its generation_time.               *)
timed_proof(cfg, st, w, elapsed) ==
    ("generation_time" :> elapsed) @@ proof_record(cfg, st, w)

CallsInit ==
    /\ calls \in {[stage |-> "inputs", config |-> cfg, statement |-> st, witness |-> w,
                   first |-> NoProof, second |-> NoProof] :
                     cfg \in Configs, st \in Statements, w \in Witnesses}
    /\ UnusedExcept("calls")
    /\ ProtocolUnused

(* The first generate_proof(statement, witness)['proof'].                  *)
FirstCall(elapsed) ==
    /\ calls.stage = "inputs"
    /\ air_holds(calls.config, calls.statement, calls.witness)
    /\ calls' = [calls EXCEPT
                    !.stage = "once",
                    !.first = timed_proof(calls.config, calls.statement,
                                          calls.witness, elapsed)]
    /\ OnlyChanges("calls")

(* The second generate_proof(statement, witness)['proof'].                 *)
SecondCall(elapsed) ==
    /\ calls.stage = "once"
    /\ calls' = [calls EXCEPT
                    !.stage = "twice",
                    !.second = timed_proof(calls.config, calls.statement,
                                           calls.witness, elapsed)]
    /\ OnlyChanges("calls")

CallsNext ==
    \/ \E elapsed \in 0..MaxElapsed : FirstCall(elapsed)
    \/ \E elapsed \in 0..MaxElapsed : SecondCall(elapsed)

CallsSpec == CallsInit /\ [][CallsNext]_all_vars

CeilDiv(a, b) == (a + b - 1) \div b

(* The smallest r with ceil(size / 2^r) <= num_queries.                    *)
RoundsNeeded(size, num_queries) ==
    CHOOSE r \in 0..size :
        /\ CeilDiv(size, 2 ^ r) <= num_queries
        /\ \A q \in 0..(r - 1) : CeilDiv(size, 2 ^ q) > num_queries

(* C26: commit_phase terminates, for a non-empty domain and num_queries of *)
(* at least 1, after the smallest number r of rounds such that             *)
(* ceil(|D0| / 2^r) <= num_queries, and returns r trees and r + 1          *)
(* polynomials.                                                            *)
C26_RoundCount ==
    transcript.stage \in {"folded", "queried", "opened"} =>
        /\ Len(transcript.fri_roots) =
               RoundsNeeded(transcript.size, transcript.num_queries)
        /\ Len(transcript.polynomials) = Len(transcript.fri_roots) + 1

C26_Witness ==
    /\ transcript.stage = "folded"
    /\ transcript.size = 3
    /\ transcript.num_queries = 1
    /\ Len(transcript.fri_roots) = 2
    /\ Len(transcript.polynomials) = 3

(* The coefficients of f at the even (parity 0) or odd (parity 1) powers.  *)
Half(coefficients, parity) ==
    [k \in 1..((Len(coefficients) + 1 - parity) \div 2) |-> coefficients[2 * k - 1 + parity]]

(* The folding challenge of round r, as read from its digest.              *)
Alpha(r) == hexint(transcript.challenges[r]) % transcript.prime

(* C27: each FRI round replaces f by f' with coefficients                  *)
(* c_2k + alpha * c_2k+1 (a missing c_2k+1 counted as 0), so that          *)
(* f'(y) = f_e(y) + alpha * f_o(y) where f(x) = f_e(x^2) + x * f_o(x^2),   *)
(* and the coefficient count drops from n to ceil(n / 2).                  *)
C27_Folding ==
    transcript.stage \in {"folded", "queried", "opened"} =>
        \A r \in 1..Len(transcript.fri_roots) :
            LET p == transcript.prime
                f == transcript.polynomials[r]
                g == transcript.polynomials[r + 1]
                f_e == Half(f, 0)
                f_o == Half(f, 1)
            IN  /\ Len(g) = CeilDiv(Len(f), 2)
                /\ \A k \in 1..Len(g) :
                       g[k] = (f[2 * k - 1]
                               + Alpha(r) * (IF 2 * k <= Len(f) THEN f[2 * k] ELSE 0)) % p
                /\ \A x \in 0..(p - 1) :
                       evaluate(p, f, x) =
                           (evaluate(p, f_e, (x * x) % p)
                            + x * evaluate(p, f_o, (x * x) % p)) % p
                /\ \A y \in 0..(p - 1) :
                       evaluate(p, g, y) =
                           (evaluate(p, f_e, y) + Alpha(r) * evaluate(p, f_o, y)) % p

C27_Witness ==
    /\ transcript.stage = "folded"
    /\ Len(transcript.fri_roots) >= 1
    /\ Len(transcript.polynomials[1]) = 3
    /\ transcript.polynomials[1][2] # 0
    /\ transcript.polynomials[1][3] # 0
    /\ Alpha(1) > 1
    /\ Len(transcript.polynomials[2]) = 2

(* The trees of the FRI layers of the committed polynomial.                *)
LayerTrees ==
    commit_phase(transcript.prime, transcript.num_queries, transcript.polynomial,
                 extended_domain(transcript.prime, transcript.size)).trees

(* C28: for every query index i of the extended domain and every FRI layer *)
(* r, the response for i has exactly one entry for layer r, whose value is *)
(* the leaf at position floor(i / 2^r) of the layer's tree and whose       *)
(* Merkle proof verifies against the layer's root; the responses are in    *)
(* the order of the query indices and each has as many entries as there    *)
(* are FRI roots.                                                          *)
C28_QueryResponses ==
    transcript.stage = "opened" =>
        /\ Len(transcript.responses) = Len(transcript.queries)
        /\ \A q \in 1..Len(transcript.queries) :
               LET response == transcript.responses[q]
               IN  /\ response.index = transcript.queries[q]
                   /\ Len(response.layers) = Len(transcript.fri_roots)
                   /\ \A r \in 1..Len(response.layers) :
                          LET position == transcript.queries[q] \div (2 ^ (r - 1))
                              opened == response.layers[r]
                          IN  /\ position < Len(LayerTrees[r].leaves)
                              /\ opened.value = LayerTrees[r].leaves[position + 1]
                              /\ verify(opened.value, position,
                                        [k \in 1..Len(opened.merkle_proof) |->
                                            [sibling |-> fromhex(opened.merkle_proof[k].sibling),
                                             is_left |-> opened.merkle_proof[k].is_left]],
                                        transcript.fri_roots[r])

C28_Witness ==
    /\ transcript.stage = "opened"
    /\ transcript.size = 4
    /\ transcript.queries = <<3>>
    /\ Len(transcript.fri_roots) = 2
    /\ Len(transcript.responses[1].layers) = 2
    /\ transcript.responses[1].layers[2].value = LayerTrees[2].leaves[2]
    /\ transcript.responses[1].layers[1].value # transcript.responses[1].layers[2].value

(***************************************************************************)
(* The legacy system, zk_system.AuthenticZKStark in standard mode          *)
(* (src/zkp/core/zk_system.py).                                            *)
(*                                                                         *)
(* self.prime is 2^521 - 1 in the program and 2^LegacyPrimeBits - 1 here.  *)
(* A Python value is a record: t is its type, n the whole part of a        *)
(* number (True is 1, False is 0), f the tenths of a float, s the text of  *)
(* a string.  SHA3-256 is a collision-free constructor like sha256.        *)
(***************************************************************************)
LegacyPrime == 2 ^ LegacyPrimeBits - 1

PyInt(n) == [t |-> "int", n |-> n, f |-> 0, s |-> <<>>]

PyBool(b) == [t |-> "bool", n |-> IF b THEN 1 ELSE 0, f |-> 0, s |-> <<>>]

PyFloat(n, tenths) == [t |-> "float", n |-> n, f |-> tenths, s |-> <<>>]

PyStr(s) == [t |-> "str", n |-> 0, f |-> 0, s |-> s]

PyNone == [t |-> "none", n |-> 0, f |-> 0, s |-> <<>>]

(* isinstance(v, (int, float)): bool is a subclass of int.                 *)
is_number(v) == v.t \in {"int", "float", "bool"}

(* isinstance(v, int)                                                      *)
is_int(v) == v.t \in {"int", "bool"}

(* a == b for a number a: True == 1 == 1.0, and no string equals a number. *)
py_eq(a, b) == is_number(a) /\ is_number(b) /\ a.n = b.n /\ a.f = b.f

(* bool(v)                                                                 *)
truthy(v) ==
    CASE is_number(v) -> v.n # 0 \/ v.f # 0
      [] v.t = "str" -> v.s # <<>>
      [] OTHER -> FALSE

(* str(v)                                                                  *)
py_str(v) ==
    CASE v.t = "int" -> IF v.n < 0 THEN <<"-">> \o str(-v.n) ELSE str(v.n)
      [] v.t = "bool" -> IF v.n = 1 THEN <<"T", "r", "u", "e">>
                         ELSE <<"F", "a", "l", "s", "e">>
      [] v.t = "float" -> str(v.n) \o <<".">> \o str(v.f)
      [] v.t = "str" -> v.s
      [] OTHER -> <<"N", "o", "n", "e">>

(* pat in s                                                                *)
contains(s, pat) ==
    \E i \in 1..(Len(s) - Len(pat) + 1) : SubSeq(s, i, i + Len(pat) - 1) = pat

(* s.replace(pat, rep) for a non-empty pat: left to right, no overlap.     *)
RECURSIVE replace_from(_, _, _, _)
replace_from(s, pat, rep, i) ==
    IF i > Len(s) - Len(pat) + 1 THEN SubSeq(s, i, Len(s))
    ELSE IF SubSeq(s, i, i + Len(pat) - 1) = pat
         THEN rep \o replace_from(s, pat, rep, i + Len(pat))
         ELSE <<s[i]>> \o replace_from(s, pat, rep, i + 1)

replace(s, pat, rep) == replace_from(s, pat, rep, 1)

is_digits(s) == s # <<>> /\ \A i \in 1..Len(s) : \E d \in 1..10 : DigitChars[d] = s[i]

(* int(s) for a string of decimal digits                                   *)
RECURSIVE int_of(_)
int_of(s) ==
    IF s = <<>> THEN 0
    ELSE 10 * int_of(SubSeq(s, 1, Len(s) - 1))
         + (CHOOSE d \in 0..9 : DigitChars[d + 1] = s[Len(s)])

sha3_256(b) == <<"k(">> \o b \o <<")">>

(* hash_to_field of one text argument                                      *)
hash_to_field(data) == hexint(sha3_256(data)) % LegacyPrime

TAMPERED == <<"_", "T", "A", "M", "P", "E", "R", "E", "D">>

PROTECTED_CONSTANT == <<"PROTECTED_CONSTANT">>

sha3_name == <<"s", "h", "a", "3", "_", "2", "5", "6">>

protected_constants == {str(LegacyPrime), sha3_name, str(SecurityLevel)}

(* clean_data_recursively on a string that is no protected constant: the   *)
(* loop over witness.items(), from entry k on.                             *)
RECURSIVE clean_string(_, _, _)
clean_string(cleaned_str, witness_values, k) ==
    IF k > Len(witness_values) THEN cleaned_str
    ELSE LET witness_key == witness_values[k].key
             witness_val == witness_values[k].value
             witness_str == py_str(witness_val)
             would_break_protected ==
                 \E protected \in protected_constants :
                     contains(protected, witness_str) /\ contains(cleaned_str, protected)
             replacement ==
                 <<"W">> \o str((hash_to_field(<<"safe_witness_">> \o witness_key
                                               \o <<"_">> \o witness_str)
                                 % ReplacementRange) + ReplacementBase)
         IN  IF /\ witness_val.t # "none"
                /\ contains(cleaned_str, witness_str)
                /\ Len(witness_str) > 1
                /\ ~would_break_protected
             THEN clean_string(replace(cleaned_str, witness_str, replacement),
                               witness_values, k + 1)
             ELSE clean_string(cleaned_str, witness_values, k + 1)

(* clean_data_recursively on an int, a float or a bool                     *)
clean_number(obj, witness_values) ==
    LET equal == {k \in 1..Len(witness_values) :
                     /\ witness_values[k].value.t # "none"
                     /\ py_eq(obj, witness_values[k].value)}
        first == CHOOSE k \in equal : \A j \in equal : k <= j
        obj_str == py_str(obj)
        is_protected == \E protected \in protected_constants : contains(protected, obj_str)
        contains_witness ==
            \E k \in 1..Len(witness_values) :
                /\ witness_values[k].value.t # "none"
                /\ Len(py_str(witness_values[k].value)) > 1
                /\ contains(obj_str, py_str(witness_values[k].value))
                /\ ~is_protected
    IN  IF equal # {}
        THEN PyInt((hash_to_field(<<"safe_numeric_witness_">> \o witness_values[first].key
                                  \o <<"_">> \o py_str(witness_values[first].value))
                    % ReplacementRange) + ReplacementBase)
        ELSE IF Len(obj_str) > LargeNumberDigits /\ contains_witness
             THEN PyInt(hash_to_field(<<"safe_large_number_">> \o obj_str)
                        % (10 ^ Len(obj_str)))
             ELSE obj

clean_data_recursively(obj, witness_values) ==
    CASE obj.t = "str" ->
             IF obj.s \in protected_constants THEN PyStr(PROTECTED_CONSTANT)
             ELSE PyStr(clean_string(obj.s, witness_values, 1))
      [] is_number(obj) -> clean_number(obj, witness_values)
      [] OTHER -> obj

clean_dict(d, witness_values) ==
    [k \in DOMAIN d |-> clean_data_recursively(d[k], witness_values)]

(* _eliminate_witness_from_data_structure on the proof dictionary          *)
eliminate_witness_from_data_structure(data, witness_values) ==
    [version |-> clean_data_recursively(data.version, witness_values),
     statement_hash |-> clean_data_recursively(data.statement_hash, witness_values),
     merkle_root |-> clean_data_recursively(data.merkle_root, witness_values),
     challenge |-> clean_data_recursively(data.challenge, witness_values),
     response |-> clean_data_recursively(data.response, witness_values),
     query_responses |->
         [i \in DOMAIN data.query_responses |->
             [index |-> clean_data_recursively(data.query_responses[i].index, witness_values),
              value |-> clean_data_recursively(data.query_responses[i].value, witness_values),
              proof |-> [j \in DOMAIN data.query_responses[i].proof |->
                            clean_data_recursively(data.query_responses[i].proof[j],
                                                   witness_values)]]],
     field_prime |-> clean_data_recursively(data.field_prime, witness_values),
     security_level |-> clean_data_recursively(data.security_level, witness_values),
     privacy_enhancements |-> clean_dict(data.privacy_enhancements, witness_values),
     proof_metadata |-> clean_dict(data.proof_metadata, witness_values)]

(* _get_statement_value(statement, 'claim', '')                            *)
get_statement_value(st) == IF "claim" \in DOMAIN st THEN st.claim ELSE <<>>

legacy_challenge(statement_hash, merkle_root) ==
    hexint(sha3_256(str(statement_hash) \o merkle_root)) % LegacyPrime

(* _generate_proof_standard.  The Merkle root, the response and the query  *)
(* responses are computed from witness_elimination_seed, which is          *)
(* secrets.randbits(256): they are inputs here.  The response is a sum of  *)
(* hashes reduced mod the prime; the inputs leave out the residue 0, which *)
(* a 521-bit sum takes with probability 2^-521.  The Merkle paths of the   *)
(* query responses, read by neither verifier, are left empty, and so are   *)
(* the fields of the dictionary that no verifier reads.                    *)
proof_data_standard(st, merkle_root, response, query) ==
    LET statement_hash == hash_to_field(get_statement_value(st))
    IN  [version |-> PyStr(<<"2", ".", "0">>),
         statement_hash |-> PyInt(statement_hash),
         merkle_root |-> PyStr(merkle_root),
         challenge |-> PyInt(legacy_challenge(statement_hash, merkle_root)),
         response |-> PyInt(response),
         query_responses |->
             <<[index |-> PyInt(query.index), value |-> PyInt(query.value), proof |-> <<>>]>>,
         field_prime |-> PyStr(str(LegacyPrime)),
         security_level |-> PyInt(SecurityLevel),
         privacy_enhancements |->
             [witness_blinding |-> PyBool(FALSE),
              multi_polynomial |-> PyBool(FALSE),
              double_commitment |-> PyBool(FALSE),
              constant_time |-> PyBool(FALSE)],
         proof_metadata |->
             [blowup_factor |-> PyInt(4),
              num_queries |-> PyInt(40),
              hash_function |-> PyStr(sha3_name),
              privacy_level |-> PyStr(<<"s", "t", "a", "n", "d", "a", "r", "d">>)]]

(* generate_proof(statement, witness)['proof']: the witness-eliminated     *)
(* copy, carrying the dictionary it was made from.                         *)
generate_proof_standard(st, witness_values, merkle_root, response, query) ==
    LET proof_data == proof_data_standard(st, merkle_root, response, query)
        display_proof_data == eliminate_witness_from_data_structure(proof_data, witness_values)
    IN  [original_proof_data |-> proof_data] @@ display_proof_data

(* The statement hash as the verifiers read it: a float is truncated, a    *)
(* string is parsed; "raise" stands for the ValueError of int().           *)
read_statement_hash(v) ==
    CASE v.t = "float" -> PyInt(v.n)
      [] v.t = "str" -> IF is_digits(v.s) THEN PyInt(int_of(v.s)) ELSE [t |-> "raise"]
      [] OTHER -> v

has_tamper_mark(pd) ==
    \E key \in {"version", "merkle_root", "field_prime"} :
        pd[key].t = "str" /\ contains(pd[key].s, TAMPERED)

(* _verify_proof_standard(proof, statement) for a proof that has no        *)
(* 'proof' key of its own.                                                 *)
verify_proof_standard(presented_proof, st) ==
    LET proof_data ==
            IF "original_proof_data" \in DOMAIN presented_proof
            THEN presented_proof.original_proof_data
            ELSE presented_proof
        proof_statement_hash == read_statement_hash(proof_data.statement_hash)
        expected_statement_hash == hash_to_field(get_statement_value(st))
    IN  /\ ~has_tamper_mark(proof_data)
        /\ proof_data.version.t = "str" /\ proof_data.version.s = <<"2", ".", "0">>
        /\ py_eq(proof_statement_hash, PyInt(expected_statement_hash))
        /\ proof_data.field_prime.t = "str" /\ proof_data.field_prime.s = str(LegacyPrime)
        /\ proof_data.merkle_root.t = "str"
        /\ py_eq(proof_data.challenge,
                 PyInt(legacy_challenge(expected_statement_hash, proof_data.merkle_root.s)))
        /\ is_int(proof_data.response) /\ is_int(proof_data.challenge)
        /\ proof_data.response.n > 0 /\ proof_data.response.n < LegacyPrime
        /\ proof_data.challenge.n > 0 /\ proof_data.challenge.n < LegacyPrime
        /\ Len(proof_data.merkle_root.s) = RootHexLength
        /\ Len(proof_data.query_responses) # 0
        /\ \A i \in DOMAIN proof_data.query_responses :
               /\ is_int(proof_data.query_responses[i].index)
               /\ is_int(proof_data.query_responses[i].value)

(* _verify_proof_enhanced_privacy(proof, statement) up to its step 3, on   *)
(* the presented dictionary itself: FALSE where one of these checks        *)
(* returns False, TRUE where the later steps are reached.                  *)
enhanced_reaches_step_4(presented_proof, st) ==
    LET proof_statement_hash == read_statement_hash(presented_proof.statement_hash)
        expected_statement_hash_int == hash_to_field(get_statement_value(st))
    IN  /\ ~has_tamper_mark(presented_proof)
        /\ presented_proof.version.t = "str"
        /\ presented_proof.version.s = <<"2", ".", "0">>
        /\ py_eq(proof_statement_hash, PyInt(expected_statement_hash_int))
        /\ presented_proof.field_prime.t = "str"
        /\ presented_proof.field_prime.s = str(LegacyPrime)

(* is_enhanced_privacy of verify_proof_sync: the or-chain of .get(k, False) *)
is_enhanced_privacy(presented_proof) ==
    LET privacy_enhancements == presented_proof.privacy_enhancements
    IN  \E key \in {"multi_polynomial", "randomized_queries", "enhanced_commitments",
                    "blinded_evaluations", "witness_blinding"} :
            key \in DOMAIN privacy_enhancements /\ truthy(privacy_enhancements[key])

(* What verify_proof_sync can return.  Steps 4 and later of the enhanced   *)
(* verifier are not modelled: where they are reached both results are      *)
(* possible.                                                               *)
verify_proof_sync(presented_proof, st) ==
    IF is_enhanced_privacy(presented_proof)
    THEN IF enhanced_reaches_step_4(presented_proof, st) THEN BOOLEAN ELSE {FALSE}
    ELSE {verify_proof_standard(presented_proof, st)}

(***************************************************************************)
(* Specification LegacySpec: one generate_proof call of the legacy system, *)
(* an optional change of one field of the returned proof, and one          *)
(* verify_proof call on what is then presented.                            *)
(***************************************************************************)
LegacyStatements == {[claim |-> <<c>>] : c \in {"x", "y"}}

LegacyValues ==
    {PyInt(n) : n \in 0..MaxWitnessValue}
    \cup {PyFloat(n, tenths) : n \in 0..MaxWitnessValue, tenths \in {0, 5}}
    \cup {PyBool(b) : b \in BOOLEAN}
    \cup {PyStr(str(n) \o str(n)) : n \in 0..MaxWitnessValue}
    \cup {PyNone}

(* Witness dictionaries, in insertion order, with the keys a1, a2, ...     *)
LegacyWitnesses ==
    UNION {{[i \in 1..n |-> [key |-> <<"a">> \o str(i), value |-> values[i]]] :
               values \in [1..n -> LegacyValues]} : n \in 0..MaxEntries}

MerkleRoots == {[i \in 1..RootHexLength |-> DigitChars[d + 1]] : d \in 0..MaxRootDigit}

QueryResponses == [index : {0}, value : 0..MaxQueryValue]

LegacyInit ==
    /\ legacy = [stage |-> "idle"]
    /\ UnusedExcept("legacy")
    /\ ProtocolUnused

LegacyGenerateProof(st, witness_values, merkle_root, response, query) ==
    /\ legacy.stage = "idle"
    /\ legacy' = [stage |-> "generated",
                  statement |-> st,
                  witness |-> witness_values,
                  returned |-> generate_proof_standard(st, witness_values, merkle_root,
                                                       response, query),
                  proof |-> generate_proof_standard(st, witness_values, merkle_root,
                                                    response, query),
                  tampered |-> "none"]
    /\ OnlyChanges("legacy")

Untampered == legacy.stage = "generated" /\ legacy.tampered = "none"

LegacyTamperChallenge(delta) ==
    /\ Untampered
    /\ is_int(legacy.proof.challenge)
    /\ legacy' = [legacy EXCEPT !.tampered = "challenge",
                                !.proof.challenge = PyInt(@.n + delta)]
    /\ OnlyChanges("legacy")

LegacyTamperResponse(factor, delta) ==
    /\ Untampered
    /\ is_int(legacy.proof.response)
    /\ legacy' = [legacy EXCEPT !.tampered = "response",
                                !.proof.response = PyInt(@.n * factor + delta)]
    /\ OnlyChanges("legacy")

LegacyTamperStatementHash ==
    /\ Untampered
    /\ is_int(legacy.proof.statement_hash)
    /\ legacy' = [legacy EXCEPT !.tampered = "statement_hash",
                                !.proof.statement_hash = PyInt(@.n + 1)]
    /\ OnlyChanges("legacy")

LegacyTamperMerkleRoot(digit) ==
    /\ Untampered
    /\ legacy.proof.merkle_root.s # <<>>
    /\ legacy.proof.merkle_root.s[Len(legacy.proof.merkle_root.s)] # DigitChars[digit + 1]
    /\ legacy' = [legacy EXCEPT !.tampered = "merkle_root",
                                !.proof.merkle_root.s =
                                    [@ EXCEPT ![Len(@)] = DigitChars[digit + 1]]]
    /\ OnlyChanges("legacy")

LegacyVerifyProof(st) ==
    /\ legacy.stage = "generated"
    /\ \E result \in verify_proof_sync(legacy.proof, st) :
           legacy' = [stage |-> "verified",
                      statement |-> legacy.statement,
                      witness |-> legacy.witness,
                      returned |-> legacy.returned,
                      proof |-> legacy.proof,
                      tampered |-> legacy.tampered,
                      claim |-> st,
                      result |-> result]
    /\ OnlyChanges("legacy")

LegacyNext ==
    \/ \E st \in LegacyStatements, witness_values \in LegacyWitnesses,
          merkle_root \in MerkleRoots, response \in 1..MaxResponse,
          query \in QueryResponses :
           LegacyGenerateProof(st, witness_values, merkle_root, response, query)
    \/ \E delta \in {-1, 1} : LegacyTamperChallenge(delta)
    \/ \E change \in {<<1, 1>>, <<2, 0>>} : LegacyTamperResponse(change[1], change[2])
    \/ LegacyTamperStatementHash
    \/ \E digit \in 0..9 : LegacyTamperMerkleRoot(digit)
    \/ \E st \in LegacyStatements : LegacyVerifyProof(st)

LegacySpec == LegacyInit /\ [][LegacyNext]_all_vars

(* C22: legacy standard-mode completeness: for every statement with a      *)
(* claim and every witness dictionary, whatever the types and values of    *)
(* its entries, verify_proof(generate_proof(statement, witness)['proof'],  *)
(* statement) is True.                                                     *)
C22_LegacyCompleteness ==
    (/\ legacy.stage = "verified"
     /\ legacy.tampered = "none"
     /\ legacy.claim = legacy.statement)
    => legacy.result = TRUE

(* C23: legacy standard-mode tamper detection: the returned proof with     *)
(* only its challenge, response, statement_hash or merkle_root changed,    *)
(* the embedded original dictionary left as returned, is rejected when     *)
(* verified with the original claim.                                       *)
C23_LegacyTamperDetected ==
    (/\ legacy.stage = "verified"
     /\ legacy.tampered # "none"
     /\ legacy.proof # legacy.returned
     /\ legacy.claim = legacy.statement)
    => legacy.result = FALSE

(* C24: every value of privacy_enhancements in the proof returned by the   *)
(* legacy generate_proof is a boolean: witness elimination never replaces  *)
(* a flag by a number.                                                     *)
C24_PrivacyFlagsBoolean ==
    legacy.stage # "idle"
    => \A key \in DOMAIN legacy.returned.privacy_enhancements :
           legacy.returned.privacy_enhancements[key].t = "bool"

(* C25: the proof returned by the legacy generate_proof carries, as        *)
(* field_prime, the decimal string of the prime.                           *)
C25_FieldPrimeString ==
    legacy.stage # "idle"
    => /\ legacy.returned.field_prime.t = "str"
       /\ legacy.returned.field_prime.s = str(LegacyPrime)

(***************************************************************************)
(* The JSON transport of the API server (src/zkp/api/server.py).  A dict   *)
(* is [t |-> "dict", items |-> a function from keys to values], a list is  *)
(* [t |-> "list", elements |-> a sequence of values]; the JavaScript safe  *)
(* integer limit 2^53 is 2^SafeIntegerBits here.                           *)
(***************************************************************************)
threshold == 2 ^ SafeIntegerBits

PyDict(items) == [t |-> "dict", items |-> items]

PyList(elements) == [t |-> "list", elements |-> elements]

abs(n) == IF n < 0 THEN -n ELSE n

RECURSIVE convert_large_ints_to_strings(_)
convert_large_ints_to_strings(obj) ==
    CASE obj.t = "bool" -> obj
      [] obj.t = "int" -> IF abs(obj.n) > threshold THEN PyStr(py_str(obj)) ELSE obj
      [] obj.t = "dict" ->
             PyDict([k \in DOMAIN obj.items |-> convert_large_ints_to_strings(obj.items[k])])
      [] obj.t = "list" ->
             PyList([i \in DOMAIN obj.elements |->
                        convert_large_ints_to_strings(obj.elements[i])])
      [] OTHER -> obj

INT_FIELDS ==
    {"statement_hash", "challenge", "response", "witness_commitment", "value", "index",
     "extended_trace_length", "execution_trace_length", "computation_steps"}

(* obj.isdigit() or (obj.startswith('-') and obj[1:].isdigit())            *)
is_integer_string(s) ==
    \/ is_digits(s)
    \/ (s # <<>> /\ Head(s) = "-" /\ is_digits(Tail(s)))

(* int(obj) for such a string                                              *)
parse_int(s) == IF Head(s) = "-" THEN -int_of(Tail(s)) ELSE int_of(s)

(* parent_key is "None" for the top-level call and for the items of a list *)
RECURSIVE parse_string_ints_to_int(_, _)
parse_string_ints_to_int(obj, parent_key) ==
    CASE obj.t = "str" ->
             IF parent_key \in INT_FIELDS /\ is_integer_string(obj.s)
             THEN PyInt(parse_int(obj.s))
             ELSE obj
      [] obj.t = "dict" ->
             PyDict([k \in DOMAIN obj.items |-> parse_string_ints_to_int(obj.items[k], k)])
      [] obj.t = "list" ->
             PyList([i \in DOMAIN obj.elements |->
                        parse_string_ints_to_int(obj.elements[i], "None")])
      [] OTHER -> obj

(***************************************************************************)
(* Specification TransportSpec: a proof dictionary is serialised by        *)
(* convert_large_ints_to_strings and parsed back by                        *)
(* parse_string_ints_to_int.                                               *)
(***************************************************************************)
TransportKeys == {"value", "proof_hash"}

TransportLeaves ==
    {PyInt(n) : n \in {0, threshold, threshold + 1, -(threshold + 1)}}
    \cup {PyBool(b) : b \in BOOLEAN}
    \cup {PyStr(s) : s \in {<<"a">>, <<"7">>, <<"0", "7">>}}

RECURSIVE TransportValues(_)
TransportValues(depth) ==
    IF depth = 0 THEN TransportLeaves
    ELSE LET inner == TransportValues(depth - 1)
         IN  inner
             \cup {PyDict([k \in {key} |-> v]) : key \in TransportKeys, v \in inner}
             \cup {PyList(<<v>>) : v \in inner}

TransportProofs ==
    {PyDict([k \in {key} |-> v]) :
        key \in TransportKeys, v \in TransportValues(MaxDepth - 1)}

TransportInit ==
    /\ \E original \in TransportProofs :
           transport = [stage |-> "proof", original |-> original]
    /\ UnusedExcept("transport")
    /\ ProtocolUnused

(* LargeIntJSONResponse.render                                             *)
Serialise ==
    /\ transport.stage = "proof"
    /\ transport' = [stage |-> "sent",
                     original |-> transport.original,
                     sent |-> convert_large_ints_to_strings(transport.original)]
    /\ OnlyChanges("transport")

(* The verify endpoint: proof_data = parse_string_ints_to_int(proof_data)  *)
Parse ==
    /\ transport.stage = "sent"
    /\ transport' = [stage |-> "parsed",
                     original |-> transport.original,
                     sent |-> transport.sent,
                     parsed |-> parse_string_ints_to_int(transport.sent, "None")]
    /\ OnlyChanges("transport")

TransportNext == Serialise \/ Parse

TransportSpec == TransportInit /\ [][TransportNext]_all_vars

(* C30: the transport round trip is lossless: parsing back what            *)
(* convert_large_ints_to_strings produced returns every integer, at any    *)
(* nesting depth and under any key, as the same integer, and every         *)
(* boolean and string unchanged.                                           *)
C30_TransportRoundTrip ==
    transport.stage = "parsed" => transport.parsed = transport.original

(***************************************************************************)
(* The proof jobs of the API server (src/zkp/api/server.py).               *)
(*                                                                         *)
(* proof_jobs maps a job id to its entry.  A job id is a timestamp and     *)
(* secrets.token_hex(8): ids are fresh, numbered here in order of          *)
(* creation.  _generate_proof_async is a coroutine that never awaits: once *)
(* started it runs to its end before the event loop serves another         *)
(* request; running is the job of the task that is between its first       *)
(* assignment and its last, 0 when there is none.  seen[j] is what a       *)
(* client polling job j has been answered, repeats left out.  The proof    *)
(* and the claim of an entry are reduced to whether they are set.          *)
(***************************************************************************)
ProofTypes == {"settlement", "risk", "rebalance", "unknown"}

KnownProofTypes == {"settlement", "risk", "rebalance"}

NewJob(proof_type) ==
    [status |-> "pending", proof_type |-> proof_type,
     proof |-> "None", claim |-> "None", error |-> "None"]

(* What the task writes to proof_jobs at its end: the update of the try    *)
(* block, or the update of the except block when something raised.         *)
task_update_all(entries, job_id, raised) ==
    [j \in DOMAIN entries |->
        IF raised
        THEN [entries[j] EXCEPT !.status = "failed", !.error = "error"]
        ELSE [entries[j] EXCEPT !.status = "completed", !.proof = "proof",
                                !.claim = "claim"]]

task_update(entries, job_id, raised) ==
    [entries EXCEPT ![job_id] =
        IF raised
        THEN [@ EXCEPT !.status = "failed", !.error = "error"]
        ELSE [@ EXCEPT !.status = "completed", !.proof = "proof", !.claim = "claim"]]

JobsInit ==
    /\ jobs = [entries |-> <<>>, running |-> 0, seen |-> <<>>]
    /\ UnusedExcept("jobs")
    /\ ProtocolUnused

(* POST /api/zk/generate                                                   *)
SubmitJob(proof_type) ==
    /\ jobs.running = 0
    /\ Len(jobs.entries) < MaxJobs
    /\ jobs' = [jobs EXCEPT !.entries = Append(@, NewJob(proof_type)),
                            !.seen = Append(@, <<>>)]
    /\ OnlyChanges("jobs")

(* _generate_proof_async up to proof_jobs[job_id]["status"] = "generating" *)
TaskStart(job_id) ==
    /\ job_id \in DOMAIN jobs.entries
    /\ jobs.running = 0
    /\ jobs.entries[job_id].status = "pending"
    /\ jobs' = [jobs EXCEPT !.entries[job_id].status = "generating",
                            !.running = job_id]
    /\ OnlyChanges("jobs")

(* The rest of _generate_proof_async: an unknown proof type raises         *)
(* ValueError, and the witness preparation or generate_proof may raise on  *)
(* the request's data.                                                     *)
TaskFinish(raised) ==
    /\ jobs.running # 0
    /\ jobs.entries[jobs.running].proof_type \notin KnownProofTypes => raised
    /\ jobs' = [jobs EXCEPT !.entries = task_update(@, jobs.running, raised),
                            !.running = 0]
    /\ OnlyChanges("jobs")

(* GET /api/zk/proof/{job_id} for a known job                              *)
PollJob(job_id) ==
    /\ job_id \in DOMAIN jobs.entries
    /\ jobs.running = 0
    /\ LET status == jobs.entries[job_id].status
           seen == jobs.seen[job_id]
       IN  /\ (IF seen = <<>> THEN TRUE ELSE seen[Len(seen)] # status)
           /\ jobs' = [jobs EXCEPT !.seen[job_id] = Append(@, status)]
    /\ OnlyChanges("jobs")

JobsNext ==
    \/ \E proof_type \in ProofTypes : SubmitJob(proof_type)
    \/ \E job_id \in 1..MaxJobs : TaskStart(job_id)
    \/ \E raised \in BOOLEAN : TaskFinish(raised)
    \/ \E job_id \in 1..MaxJobs : PollJob(job_id)

(* Starlette runs the background tasks of a request once its response is   *)
(* sent, and a started task runs to its end.                               *)
JobsSpec ==
    /\ JobsInit
    /\ [][JobsNext]_all_vars
    /\ WF_all_vars(\E job_id \in 1..MaxJobs : TaskStart(job_id))
    /\ WF_all_vars(\E raised \in BOOLEAN : TaskFinish(raised))

Terminal == {"completed", "failed"}

StatusRank(status) ==
    CASE status = "pending" -> 0
      [] status = "generating" -> 1
      [] OTHER -> 2

EntryOK(entry) ==
    /\ entry.status \in {"pending", "generating"} \cup Terminal
    /\ entry.status = "completed" => entry.proof # "None" /\ entry.claim # "None"
    /\ entry.status = "failed" => entry.error # "None"

SeenInOrder(seen) ==
    \A i \in 1..Len(seen), k \in 1..Len(seen) :
        i < k => StatusRank(seen[i]) < StatusRank(seen[k])

JobStep(job_id) ==
    LET before == jobs.entries[job_id]
        after == jobs'.entries[job_id]
        task == IF jobs.running # 0 THEN jobs.running ELSE jobs'.running
    IN  /\ job_id \in DOMAIN jobs'.entries
        /\ \/ after.status = before.status
           \/ before.status = "pending" /\ after.status = "generating"
           \/ before.status = "generating" /\ after.status \in Terminal
        /\ before.status \in Terminal => after = before
        /\ (task # 0 /\ task # job_id) => after = before

(* C29: a job starts in status pending, moves to generating when its       *)
(* background task runs, and eventually reaches exactly one of completed,  *)
(* with proof and claim set, or failed, with error set, after which its    *)
(* status never changes; polling observes these statuses only in that      *)
(* order, and a background task changes no job entry other than its own.   *)
C29_JobLifecycle ==
    /\ [](\A job_id \in DOMAIN jobs.entries :
              EntryOK(jobs.entries[job_id]) /\ SeenInOrder(jobs.seen[job_id]))
    /\ [][/\ \A job_id \in DOMAIN jobs.entries : JobStep(job_id)
          /\ \A job_id \in DOMAIN jobs'.entries \ DOMAIN jobs.entries :
                 jobs'.entries[job_id].status = "pending"
          /\ jobs.running = 0 /\ jobs'.running # 0
             => jobs'.entries[jobs'.running].status = "generating"]_jobs
    /\ \A job_id \in 1..MaxJobs :
           [](job_id \in DOMAIN jobs.entries
              => <>(/\ job_id \in DOMAIN jobs.entries
                    /\ jobs.entries[job_id].status \in Terminal))

C29_Witness ==
    /\ Len(jobs.entries) = 2
    /\ jobs.entries[1].status = "completed"
    /\ jobs.entries[1].proof # "None" /\ jobs.entries[1].claim # "None"
    /\ jobs.seen[1] = <<"pending", "completed">>
    /\ jobs.entries[2].status = "failed"
    /\ jobs.entries[2].error # "None"
    /\ jobs.seen[2] = <<"failed">>

====
